---- MODULE Spec2Model ----
(***************************************************************************)
(* State-machine model of the totp module (src/totp.py, Python 2): the     *)
(* functions time_steps, hmac_digest, truncate, hotp, totp, generate_key   *)
(* and current_timestamp_utc, each called by a client with arguments drawn *)
(* from bounded sets.  The state is the last call, what it returned or     *)
(* raised, the locals the call computed on the way, the module's globals,  *)
(* and one remembered earlier call.                                        *)
(*                                                                         *)
(* Python values.  A time value or a code is a TLA+ integer.  A counter,   *)
(* which Python holds as an int or a long of any size, is a record         *)
(* [t, neg, b]: its sign and its magnitude as base-256 digits, least       *)
(* significant first, without leading zeros.  A byte string is a sequence  *)
(* of 0..255.  None is the empty tuple and a given optional x is <<x>>.    *)
(***************************************************************************)
EXTENDS Integers, Sequences, FiniteSets, TLC

VARIABLES
    call,       \* the last call: [op, args]
    result,     \* what it did: [status, exc, kind, value, offset, codestr, hashed]
    globals,    \* the module's globals DEFAULT_TIME_STEP, DEFAULT_EPOCH, DEFAULT_DIGITS
    hmacSeed,   \* which keyed-hash function the hmac library computes
    pc,         \* the client: "idle" between calls, "returned" holding a result
    saved       \* one earlier hotp/totp call and its result, or NoCall

vars == <<call, result, globals, hmacSeed, pc, saved>>

----------------------------------------------------------------------------
(* Bounds of the model. *)

\* time_steps is called with every current in -MaxTime..MaxTime
MaxTime == 60
\* truncate is called with every digits in -2..MaxDigits
MaxDigits == 8
\* the hmac library is one of the functions numbered 0..MaxSeed
MaxSeed == 1
\* generate_key is called with every size up to MaxKeySize
MaxKeySize == 2
\* the wall clock reads one of MaxClock + 1 instants, 20 seconds apart
MaxClock == 2

----------------------------------------------------------------------------
(* Module constants, src/totp.py lines 10 to 12. *)

DEFAULT_TIME_STEP == 30
DEFAULT_EPOCH == 0
DEFAULT_DIGITS == 6

----------------------------------------------------------------------------
(* Python values and helpers. *)

None == <<>>
Some(x) == <<x>>

NoBytes == <<>>

Min(a, b) == IF a < b THEN a ELSE b

RECURSIVE Pow(_, _)
Pow(base, e) == IF e = 0 THEN 1 ELSE base * Pow(base, e - 1)

RECURSIVE Reverse(_)
Reverse(s) == IF s = <<>> THEN <<>> ELSE Append(Reverse(Tail(s)), Head(s))

Zeros(n) == [i \in 1..n |-> 0]

\* s[lo:hi] for 0 <= lo <= hi: both ends are clamped to the length of s
PySlice(s, lo, hi) ==
    LET l == Min(lo, Len(s))
        h == Min(hi, Len(s))
    IN  IF l >= h THEN <<>> ELSE SubSeq(s, l + 1, h)

\* a & b for non-negative a and b, bit by bit
RECURSIVE BitAnd(_, _)
BitAnd(a, b) ==
    IF a = 0 \/ b = 0 THEN 0
    ELSE (a % 2) * (b % 2) + 2 * BitAnd(a \div 2, b \div 2)

\* the base-256 digits of n >= 0, least significant first
RECURSIVE Digits256(_)
Digits256(n) == IF n = 0 THEN <<>> ELSE <<n % 256>> \o Digits256(n \div 256)

\* the Python long with the value of the TLA+ integer n
ToLong(n) == [t |-> "long", neg |-> n < 0, b |-> Digits256(IF n < 0 THEN -n ELSE n)]

\* the Python int with the value of the TLA+ integer n
ToInt(n) == [t |-> "int", neg |-> n < 0, b |-> Digits256(IF n < 0 THEN -n ELSE n)]

\* a byte string as a message
Bytes(s) == [t |-> "bytes", neg |-> FALSE, b |-> s]

----------------------------------------------------------------------------
(* What a call does: it returns a value or raises. *)

NoValue == <<>>

Blank == [status |-> "none", exc |-> "", kind |-> "none", value |-> NoValue,
          offset |-> -1, codestr |-> NoBytes, hashed |-> NoBytes]

Raise(exc) == [Blank EXCEPT !.status = "error", !.exc = exc]

Return(kind, value) == [Blank EXCEPT !.status = "ok", !.kind = kind, !.value = value]

----------------------------------------------------------------------------
(* Library calls the module makes. *)

\* int(timegm(gmtime())): the instants the wall clock may read
Clock == {1700000000 + 20 * k : k \in 0..MaxClock}

\* mutant of PyFloorDiv: the quotient rounded toward zero, as C divides
PyTruncDiv(a, b) ==
    LET abs(x) == IF x < 0 THEN 0 - x ELSE x
        q == abs(a) \div abs(b)
    IN  IF (a < 0) = (b < 0) THEN q ELSE 0 - q

\* a / b on Python 2 integers: floor division, ZeroDivisionError when b = 0
\* (the caller tests b = 0)
PyFloorDiv(a, b) == IF b > 0 THEN a \div b ELSE (0 - a) \div (0 - b)

\* mutant of struct_pack_Q: the low 8 bytes of the magnitude, whatever the
\* sign and the size
struct_pack_Q_wrapping(v) ==
    LET padded == v.b \o Zeros(8)
    IN  Return("bytes", Reverse(SubSeq(padded, 1, 8)))

\* mutant of struct_pack_Q: '<Q', least significant byte first
struct_pack_Q_little(v) ==
    IF v.neg THEN Raise("struct.error")
    ELSE IF Len(v.b) > 8 THEN Raise("struct.error")
    ELSE Return("bytes", v.b \o Zeros(8 - Len(v.b)))

\* struct.pack('>Q', v): the 8 bytes of v, most significant first; struct.error
\* when v is negative or does not fit 8 bytes
struct_pack_Q(v) ==
    IF v.neg THEN Raise("struct.error")
    ELSE IF Len(v.b) > 8 THEN Raise("struct.error")
    ELSE Return("bytes", Zeros(8 - Len(v.b)) \o Reverse(v.b))

\* the bits of a byte, most significant first
Bits8(x) == [i \in 1..8 |-> (x \div Pow(2, 8 - i)) % 2]

\* mutant of struct_unpack_I: a short string is read as if zero bytes led it
struct_unpack_I_padded(s) ==
    LET p == Zeros(4 - Min(4, Len(s))) \o SubSeq(s, 1, Min(4, Len(s)))
    IN  Return("bits", Bits8(p[1]) \o Bits8(p[2]) \o Bits8(p[3]) \o Bits8(p[4]))

\* struct.unpack('>I', s)[0]: struct.error unless s has 4 bytes; else the
\* unsigned 32-bit big-endian integer, held as its 32 bits, most significant first
struct_unpack_I(s) ==
    IF Len(s) # 4 THEN Raise("struct.error")
    ELSE Return("bits", Bits8(s[1]) \o Bits8(s[2]) \o Bits8(s[3]) \o Bits8(s[4]))

\* the low 32 bits of ~(1 << n), most significant first
NotBit(n) == [i \in 1..32 |-> IF i = 32 - n THEN 0 ELSE 1]

\* x & m on 32 bits
BitsAnd(x, m) == [i \in 1..32 |-> x[i] * m[i]]

\* the integer a bit string stands for
RECURSIVE BitsValue(_)
BitsValue(bits) ==
    IF bits = <<>> THEN 0
    ELSE 2 * BitsValue(SubSeq(bits, 1, Len(bits) - 1)) + bits[Len(bits)]

HashFuncs == {"md5", "sha1", "sha256", "sha512"}

\* hashfunc().digest_size
DigestSize(hashfunc) ==
    CASE hashfunc = "md5" -> 16
      [] hashfunc = "sha1" -> 20
      [] hashfunc = "sha256" -> 32
      [] hashfunc = "sha512" -> 64

\* an order-sensitive checksum of a byte string
RECURSIVE Fold(_)
Fold(s) == IF s = <<>> THEN 7 ELSE (Head(s) + 31 * Fold(Tail(s))) % 251

\* hmac.new(key, msg, hashfunc).digest(): a function of the key, the message
\* and the hash, with digest_size bytes. Which function is left to hmacSeed;
\* the bytes stand in for the library's.
hmac_new(seed, key, msg, hashfunc) ==
    LET h == 17 * Fold(key) + 29 * Fold(msg) + 101 * seed + DigestSize(hashfunc)
    IN  [i \in 1..DigestSize(hashfunc) |-> (h * (i + 2) + 7 * i * i) % 256]

----------------------------------------------------------------------------
(* The functions of src/totp.py. *)

\* current_timestamp_utc(), with the instant the clock shows
current_timestamp_utc(now) == now

\* mutant of time_steps: the clock is read even when current is given
time_steps_clock_only(current, epoch, step, now) ==
    IF step = 0 THEN Raise("ZeroDivisionError")
    ELSE Return("long", PyFloorDiv(current_timestamp_utc(now) - epoch, step))

\* time_steps(current, epoch, step); now is what the clock shows
time_steps(current, epoch, step, now) ==
    LET cur == IF current = None THEN current_timestamp_utc(now) ELSE current[1]
    IN  IF step = 0 THEN Raise("ZeroDivisionError")
        ELSE Return("long", PyFloorDiv(cur - epoch, step))

\* hmac_digest(key, message, hashfunc)
hmac_digest(seed, key, message, hashfunc) ==
    IF message.t = "int" \/ message.t = "long"
    THEN LET packed == struct_pack_Q(message)
         IN  IF packed.status = "error" THEN packed
             ELSE [Return("bytes", hmac_new(seed, key, packed.value, hashfunc))
                       EXCEPT !.hashed = packed.value]
    ELSE [Return("bytes", hmac_new(seed, key, message.b, hashfunc))
              EXCEPT !.hashed = message.b]

\* mutant of truncate_offset: the offset taken from the first byte
truncate_offset_first(digest) == BitAnd(digest[1], 15)

\* byte & 15 in truncate: the offset from the final byte
truncate_offset(digest) == BitAnd(digest[Len(digest)], 15)

\* mutant of truncate_codestr: the slice one byte further on
truncate_codestr_next(digest, offset) == PySlice(digest, offset + 1, offset + 5)

\* digest[offset:offset+4] in truncate
truncate_codestr(digest, offset) == PySlice(digest, offset, offset + 4)

\* code & ~(1 << 31) in truncate, for the unpacked code
truncate_mask(code) == BitsAnd(code, NotBit(31))

\* mutant of truncate: the masked code returned without the modulus
truncate_no_modulus(digest, digits) ==
    IF Len(digest) = 0 THEN Raise("IndexError")
    ELSE LET offset == truncate_offset(digest)
             codestr == truncate_codestr(digest, offset)
             unpacked == struct_unpack_I(codestr)
         IN  IF unpacked.status = "error"
             THEN [unpacked EXCEPT !.offset = offset, !.codestr = codestr]
             ELSE [Return("int", BitsValue(truncate_mask(unpacked.value)))
                       EXCEPT !.offset = offset, !.codestr = codestr]

\* truncate(digest, digits)
truncate(digest, digits) ==
    IF Len(digest) = 0 THEN Raise("IndexError")
    ELSE LET offset == truncate_offset(digest)
             codestr == truncate_codestr(digest, offset)
             unpacked == struct_unpack_I(codestr)
         IN  IF unpacked.status = "error"
             THEN [unpacked EXCEPT !.offset = offset, !.codestr = codestr]
             ELSE LET code == BitsValue(truncate_mask(unpacked.value))
                      out == IF digits >= 0
                             THEN Return("int", code % Pow(10, digits))
                             ELSE Return("float", NoValue)
                  IN  [out EXCEPT !.offset = offset, !.codestr = codestr]

\* hotp(key, counter, hashfunc)
hotp(seed, key, counter, hashfunc) ==
    LET digest == hmac_digest(seed, key, counter, hashfunc)
    IN  IF digest.status = "error" THEN digest
        ELSE [truncate(digest.value, DEFAULT_DIGITS) EXCEPT !.hashed = digest.hashed]

\* totp(key, current, epoch, step); now is what the clock shows
totp(seed, key, current, epoch, step, now) ==
    LET steps == time_steps(current, epoch, step, now)
    IN  IF steps.status = "error" THEN steps
        ELSE hotp(seed, key, ToLong(steps.value), "sha1")

\* generate_key(size), with the bytes os.urandom draws
generate_key(size, random) ==
    IF size < 0 THEN Raise("ValueError") ELSE Return("bytes", random)

----------------------------------------------------------------------------
(* The arguments the client calls with. *)

\* the RFC 4226 test key "12345678901234567890", and a short binary key
Keys == {<<49, 50, 51, 52, 53, 54, 55, 56, 57, 48,
           49, 50, 51, 52, 53, 54, 55, 56, 57, 48>>, <<255, 0>>}

\* counters: small ones of either sign, 2^31 - 1, 2^32, 2^64 - 1, 2^64, -(2^64)
Counters ==
    {ToInt(n) : n \in {-2, -1, 0, 1, 2, 255, 256, 65536, 2147483647}}
    \cup {ToLong(n) : n \in {-1, 0, 1, 258}}
    \cup {[t |-> "long", neg |-> FALSE, b |-> <<0, 0, 0, 0, 1>>],
          [t |-> "long", neg |-> FALSE, b |-> [i \in 1..8 |-> 255]],
          [t |-> "long", neg |-> FALSE, b |-> <<0, 0, 0, 0, 0, 0, 0, 0, 1>>],
          [t |-> "long", neg |-> TRUE, b |-> <<0, 0, 0, 0, 0, 0, 0, 0, 1>>]}

\* messages that are already byte strings
ByteMessages ==
    {Bytes(<<>>), Bytes(<<1>>), Bytes(<<0, 0, 0, 0, 0, 0, 0, 1>>),
     Bytes(<<1, 0, 0, 0, 0, 0, 0, 0>>)}

\* a digest of len >= 1 bytes ending in the byte last, its other bytes set by pat
MkDigest(len, last, pat) ==
    [i \in 1..len |-> IF i = len THEN last ELSE (pat + 13 * i) % 256]

DigestLens == {1, 3, 4, 16, 19, 20, 21, 32, 64}

\* final bytes: every low nibble, under a zero and under a full high nibble
LastBytes == (0..15) \cup (240..255)

Digests ==
    {<<>>} \cup {MkDigest(len, last, pat) :
                    len \in DigestLens, last \in LastBytes, pat \in {0, 200}}

\* digests for the runs that remember a call: the lengths around 20, two patterns
FewDigests ==
    {<<>>} \cup {MkDigest(len, last, 200) : len \in {16, 20}, last \in {0, 13, 255}}

DigitCounts == (0 - 2)..MaxDigits

Times == (0 - MaxTime)..MaxTime

FewTimes == {0 - 31, 0 - 1, 0, 29, 59, 60}

\* counters for the runs that remember a call
FewCounters ==
    {ToInt(n) : n \in {0 - 1, 0, 1, 256}}
    \cup {[t |-> "long", neg |-> FALSE, b |-> <<0, 0, 0, 0, 0, 0, 0, 0, 1>>]}

Epochs == {0 - 30, 0, 60}

Steps == {0 - 30, 0 - 7, 0 - 1, 0, 1, 7, 30}

OptionalOf(S) == {None} \cup {Some(x) : x \in S}

----------------------------------------------------------------------------
(* State machine: one action per function of the module. The client calls  *)
(* a function when idle, holds what it returned or raised, and goes idle.  *)

NoCall == [call |-> [op |-> "none", args |-> <<>>], result |-> Blank]

ModuleGlobals ==
    [step |-> DEFAULT_TIME_STEP, epoch |-> DEFAULT_EPOCH, digits |-> DEFAULT_DIGITS]

Init ==
    /\ call = NoCall.call
    /\ result = Blank
    /\ globals = ModuleGlobals
    /\ hmacSeed \in 0..MaxSeed
    /\ pc = "idle"
    /\ saved = NoCall

\* no function of the module assigns a global
Frame == UNCHANGED <<globals, hmacSeed>>

CurrentTimestampCall ==
    /\ pc = "idle"
    /\ \E now \in Clock :
          /\ call' = [op |-> "current_timestamp_utc", args |-> <<>>]
          /\ result' = Return("int", current_timestamp_utc(now))
    /\ pc' = "returned"
    /\ Frame
    /\ UNCHANGED saved

TimeStepsCall(currents) ==
    /\ pc = "idle"
    /\ \E current \in OptionalOf(currents), epoch \in Epochs, step \in Steps, now \in Clock :
          /\ call' = [op |-> "time_steps", args |-> <<current, epoch, step>>]
          /\ result' = time_steps(current, epoch, step, now)
    /\ pc' = "returned"
    /\ Frame
    /\ UNCHANGED saved

HmacDigestCall ==
    /\ pc = "idle"
    /\ \E key \in Keys, message \in Counters \cup ByteMessages, hashfunc \in HashFuncs :
          /\ call' = [op |-> "hmac_digest", args |-> <<key, message, hashfunc>>]
          /\ result' = hmac_digest(hmacSeed, key, message, hashfunc)
    /\ pc' = "returned"
    /\ Frame
    /\ UNCHANGED saved

TruncateCall(digests) ==
    /\ pc = "idle"
    /\ \E digest \in digests, digits \in DigitCounts :
          /\ call' = [op |-> "truncate", args |-> <<digest, digits>>]
          /\ result' = truncate(digest, digits)
    /\ pc' = "returned"
    /\ Frame
    /\ UNCHANGED saved

HotpCall(counters) ==
    /\ pc = "idle"
    /\ \E key \in Keys, counter \in counters, hashfunc \in HashFuncs :
          /\ call' = [op |-> "hotp", args |-> <<key, counter, hashfunc>>]
          /\ result' = hotp(hmacSeed, key, counter, hashfunc)
    /\ pc' = "returned"
    /\ Frame
    /\ UNCHANGED saved

TotpCall(currents, steps) ==
    /\ pc = "idle"
    /\ \E key \in Keys, current \in OptionalOf(currents), epoch \in Epochs,
          step \in steps, now \in Clock :
          /\ call' = [op |-> "totp", args |-> <<key, current, epoch, step>>]
          /\ result' = totp(hmacSeed, key, current, epoch, step, now)
    /\ pc' = "returned"
    /\ Frame
    /\ UNCHANGED saved

GenerateKeyCall ==
    /\ pc = "idle"
    /\ \E size \in (0 - 1)..MaxKeySize :
          \E random \in [1..(IF size < 0 THEN 0 ELSE size) -> {0, 170, 255}] :
              /\ call' = [op |-> "generate_key", args |-> <<size>>]
              /\ result' = generate_key(size, random)
    /\ pc' = "returned"
    /\ Frame
    /\ UNCHANGED saved

\* the client is done with the result; it may remember a hotp or totp call
\* and what it gave
ClientContinues(saves) ==
    /\ pc = "returned"
    /\ \E save \in saves :
          saved' = IF save /\ call.op \in {"hotp", "totp"}
                   THEN [call |-> call, result |-> result]
                   ELSE saved
    /\ pc' = "idle"
    /\ call' = NoCall.call
    /\ result' = Blank
    /\ UNCHANGED <<globals, hmacSeed>>

\* every function, over the full argument sets; no call is remembered
Next ==
    \/ CurrentTimestampCall
    \/ TimeStepsCall(Times)
    \/ HmacDigestCall
    \/ TruncateCall(Digests)
    \/ HotpCall(Counters)
    \/ TotpCall(FewTimes, Steps)
    \/ GenerateKeyCall
    \/ ClientContinues({FALSE})

Spec == Init /\ [][Next]_vars

\* every function again, where a hotp or totp call may be remembered
NextRepeat ==
    \/ CurrentTimestampCall
    \/ TimeStepsCall(FewTimes)
    \/ HmacDigestCall
    \/ TruncateCall(FewDigests)
    \/ HotpCall(FewCounters)
    \/ TotpCall({0 - 1, 29, 59}, {0, 1, 30})
    \/ GenerateKeyCall
    \/ ClientContinues(BOOLEAN)

SpecRepeat == Init /\ [][NextRepeat]_vars

----------------------------------------------------------------------------
(* Properties. A call's arguments are read from call.args and what it did  *)
(* from result, in the state where the client holds the result.            *)

Returned(op) == pc = "returned" /\ call.op = op

\* C1: for an explicit current and step > 0, time_steps returns
\* r = floor((current - epoch) / step), the one integer with
\* r * step <= current - epoch < (r + 1) * step, so a negative delta rounds
\* down; time_steps(29,0,30) = 0, time_steps(59,0,30) = 1, time_steps(60,0,30) = 2.
C1_TimeStepsFloor ==
    (Returned("time_steps") /\ call.args[1] # None /\ call.args[3] > 0) =>
        LET delta == call.args[1][1] - call.args[2]
            step == call.args[3]
        IN  /\ result.status = "ok"
            /\ result.value * step <= delta
            /\ delta < (result.value + 1) * step
            /\ (call.args = <<Some(29), 0, 30>> => result.value = 0)
            /\ (call.args = <<Some(59), 0, 30>> => result.value = 1)
            /\ (call.args = <<Some(60), 0, 30>> => result.value = 2)

\* a negative delta that step does not divide: -31 / 30 is -2, not -1
C1_Witness ==
    /\ Returned("time_steps")
    /\ call.args = <<Some(0 - 31), 0, 30>>
    /\ result.status = "ok"
    /\ result.value = 0 - 2

\* C2: for a digest of at least 20 bytes and digits >= 1, truncate returns
\* the RFC 4226 dynamic truncation: with o the low 4 bits of the last byte,
\* the big-endian value of digest[o .. o+3] with its top bit cleared,
\* mod 10^digits.
C2_TruncateRfc4226 ==
    (Returned("truncate") /\ Len(call.args[1]) >= 20 /\ call.args[2] >= 1) =>
        LET d == call.args[1]
            o == d[Len(d)] % 16
            v == (d[o + 1] % 128) * 16777216 + d[o + 2] * 65536
                     + d[o + 3] * 256 + d[o + 4]
        IN  /\ result.status = "ok"
            /\ result.kind = "int"
            /\ result.value = v % Pow(10, call.args[2])

\* a 20-byte digest whose slice has its top bit set and exceeds 10^digits
C2_Witness ==
    /\ Returned("truncate")
    /\ Len(call.args[1]) = 20
    /\ call.args[2] = 6
    /\ LET d == call.args[1]
           o == d[Len(d)] % 16
       IN  o = 10 /\ d[o + 1] >= 128 /\ d[o + 1] % 128 > 0
    /\ result.status = "ok"

\* C3: every code hotp or totp returns is an integer c with 0 <= c < 10^6,
\* whatever the key, the counter, the hash and the digest (the counters in
\* [0, 2^64) and the times with step > 0 and current >= epoch among them).
C3_CodeBelowMillion ==
    (pc = "returned" /\ call.op \in {"hotp", "totp"} /\ result.status = "ok") =>
        /\ result.kind = "int"
        /\ 0 <= result.value
        /\ result.value < 1000000

\* totp with step > 0 and current >= epoch returns a full six-digit code
C3_Witness ==
    /\ Returned("totp")
    /\ call.args[2] # None
    /\ call.args[4] > 0
    /\ call.args[2][1] >= call.args[3]
    /\ result.status = "ok"
    /\ result.value >= 100000

\* C4: time_steps and totp fail for every step <= 0: they never return a
\* counter or a code when step is not positive.
C4_NonPositiveStepFails ==
    /\ (Returned("time_steps") /\ call.args[3] <= 0) => result.status = "error"
    /\ (Returned("totp") /\ call.args[4] <= 0) => result.status = "error"

\* C5: truncate fails for every digits <= 0: it never returns a code when
\* the digit count is not positive.
C5_NonPositiveDigitsFails ==
    (Returned("truncate") /\ call.args[2] <= 0) => result.status = "error"

\* whether a message is an integer that fits an unsigned 8-byte integer
IsInteger(m) == m.t \in {"int", "long"}
FitsUnsigned64(m) == ~m.neg /\ Len(m.b) <= 8

\* C6: when the counter is negative or at least 2^64, hmac_digest and hotp
\* raise and hash nothing; totp raises, and returns no code, when
\* current < epoch with step > 0 (a negative counter).
C6_UnrepresentableCounterFails ==
    /\ (/\ pc = "returned"
        /\ call.op \in {"hmac_digest", "hotp"}
        /\ IsInteger(call.args[2])
        /\ ~FitsUnsigned64(call.args[2])) =>
            /\ result.status = "error"
            /\ result.hashed = NoBytes
    /\ (/\ Returned("totp")
        /\ call.args[2] # None
        /\ call.args[4] > 0
        /\ call.args[2][1] < call.args[3]) =>
            /\ result.status = "error"
            /\ result.hashed = NoBytes

\* hotp with the counter 2^64 raised
C6_Witness ==
    /\ Returned("hotp")
    /\ ~call.args[2].neg
    /\ Len(call.args[2].b) = 9
    /\ result.status = "error"

\* the 8-byte unsigned big-endian encoding of m: byte i is the digit of
\* 256^(8-i), zero where m has no such digit
BigEndian8(m) == [i \in 1..8 |-> IF 9 - i <= Len(m.b) THEN m.b[9 - i] ELSE 0]

\* the value of a byte string read most significant byte first
RECURSIVE BigEndianValue(_)
BigEndianValue(s) ==
    IF s = <<>> THEN 0
    ELSE 256 * BigEndianValue(SubSeq(s, 1, Len(s) - 1)) + s[Len(s)]

\* C7: for an integer n in [0, 2^64), hmac_digest(key, n) is
\* hmac_digest(key, b) for b the 8-byte unsigned big-endian encoding of n;
\* a message that is already bytes is hashed unchanged. In totp the bytes
\* hashed are the 8 bytes whose value is the counter floor((current-epoch)/step).
C7_IntegerHashedBigEndian ==
    /\ Returned("hmac_digest") =>
        LET key == call.args[1]
            m == call.args[2]
            hashfunc == call.args[3]
        IN  IF IsInteger(m)
            THEN FitsUnsigned64(m) =>
                    /\ result.status = "ok"
                    /\ Len(result.hashed) = 8
                    /\ result = hmac_digest(hmacSeed, key, Bytes(BigEndian8(m)), hashfunc)
            ELSE /\ result.status = "ok"
                 /\ result.hashed = m.b
    /\ (Returned("totp") /\ call.args[2] # None /\ result.status = "ok") =>
            /\ Len(result.hashed) = 8
            /\ LET n == BigEndianValue(result.hashed)
                   delta == call.args[2][1] - call.args[3]
                   step == call.args[4]
               IN  IF step > 0
                   THEN n * step <= delta /\ delta < (n + 1) * step
                   ELSE n * step >= delta /\ delta > (n + 1) * step

\* hmac_digest of the integer 258, whose bytes are not a palindrome
C7_Witness ==
    /\ Returned("hmac_digest")
    /\ call.args[2].t = "long"
    /\ call.args[2].b = <<2, 1>>
    /\ result.status = "ok"
    /\ result.hashed = <<0, 0, 0, 0, 0, 0, 1, 2>>

\* C8: hotp, and totp with an explicit current, give what the same call
\* gave before, whatever was called in between, and the module's globals
\* stay step 30, epoch 0, digits 6.
C8_SameCallSameResult ==
    /\ globals = [step |-> 30, epoch |-> 0, digits |-> 6]
    /\ (/\ pc = "returned"
        /\ call.op \in {"hotp", "totp"}
        /\ saved.call.op = call.op
        /\ saved.call.args = call.args
        /\ (call.op = "totp" => call.args[2] # None)) =>
            saved.result = result

\* a totp call with an explicit current repeats a remembered one and returns
\* a code
C8_Witness ==
    /\ Returned("totp")
    /\ saved.call.op = "totp"
    /\ saved.call.args = call.args
    /\ call.args[2] # None
    /\ result.status = "ok"
    /\ saved.result = result

\* C9 as the claim states it: for a digest of at least 20 bytes truncate
\* reads 4 bytes inside the digest and does not raise, and a 20-byte digest
\* with low nibble 15 has the bytes at indices 16 to 19 (from 0) read, which
\* are d[17] to d[20] counting from 1.
C9_ReadsIndices16To19 ==
    (Returned("truncate") /\ Len(call.args[1]) >= 20) =>
        LET d == call.args[1]
            o == result.offset
        IN  /\ result.status = "ok"
            /\ o = d[Len(d)] % 16
            /\ o + 4 <= Len(d)
            /\ (Len(d) = 20 /\ d[20] % 16 = 15) =>
                   result.codestr = <<d[17], d[18], d[19], d[20]>>

\* C9, amended: for a digest of at least 20 bytes truncate reads the 4 bytes
\* at indices offset to offset + 3 (from 0), offset being the low nibble of
\* the last byte of the whole digest; they lie inside the digest and
\* truncate does not raise. A 20-byte digest with low nibble 15 has the
\* bytes at indices 15 to 18 read, d[16] to d[19] counting from 1: the last
\* byte gives the offset and is never part of that slice.
C9_SliceInsideDigest ==
    (Returned("truncate") /\ Len(call.args[1]) >= 20) =>
        LET d == call.args[1]
            o == result.offset
        IN  /\ result.status = "ok"
            /\ o = d[Len(d)] % 16
            /\ o + 4 <= Len(d)
            /\ result.codestr = <<d[o + 1], d[o + 2], d[o + 3], d[o + 4]>>
            /\ (Len(d) = 20 /\ d[20] % 16 = 15) =>
                   result.codestr = <<d[16], d[17], d[18], d[19]>>

\* a 20-byte digest with low nibble 15 was truncated
C9_Witness ==
    /\ Returned("truncate")
    /\ Len(call.args[1]) = 20
    /\ call.args[1][20] = 255
    /\ result.status = "ok"
    /\ result.offset = 15

\* C10: truncate raises for an empty digest and for a digest shorter than
\* offset + 4; no code that truncate, hotp or totp returns was computed from
\* fewer than 4 digest bytes.
C10_ShortSliceFails ==
    /\ (Returned("truncate") /\ Len(call.args[1]) = 0) =>
            result.status = "error"
    /\ (/\ Returned("truncate")
        /\ Len(call.args[1]) > 0
        /\ Len(call.args[1]) < (call.args[1][Len(call.args[1])] % 16) + 4) =>
            result.status = "error"
    /\ (/\ pc = "returned"
        /\ call.op \in {"truncate", "hotp", "totp"}
        /\ result.status = "ok") =>
            Len(result.codestr) = 4

\* a 16-byte digest with low nibble 13 made truncate raise on a 3-byte slice
C10_Witness ==
    /\ Returned("truncate")
    /\ Len(call.args[1]) = 16
    /\ call.args[1][16] % 16 = 13
    /\ result.status = "error"
    /\ Len(result.codestr) = 3

====
